---- MODULE Spec2Model ----
(***************************************************************************)
(* Model of ArxivClient (src/src/fetcher/arxiv_search.py): the constructor *)
(* with its settings fallbacks, and search_papers, the loop over topics    *)
(* that consumes the collaborator's lazy result stream, cuts each topic at *)
(* the first result older than the cutoff, deduplicates by arxiv_id and    *)
(* returns the records sorted newest first.                                *)
(*                                                                         *)
(* Strings the code takes apart (entry_id) are sequences of one-character  *)
(* strings.  Timestamps and durations are integers counted in hours.       *)
(* An optional argument is <<>> for None and <<v>> for the value v.        *)
(***************************************************************************)
EXTENDS Integers, Sequences, FiniteSets, TLC

VARIABLES
    pc,              \* position of the program
    args,            \* history: the arguments the constructor was given
    max_results,     \* self.max_results
    delay_seconds,   \* self.delay_seconds
    hours_back,      \* self.hours_back
    topics,          \* the argument of search_papers
    now,             \* datetime.now(timezone.utc), read once per call
    cutoff_time,     \* local cutoff_time
    all_papers,      \* local dict all_papers, in insertion order
    i,               \* number of topics whose search was issued
    stream,          \* the results of the current search consumed so far
    topic_count,     \* local topic_count
    returned,        \* the value search_papers returned
    requests,        \* history: the queries issued to the collaborator
    first_seen,      \* history: per arxiv_id, the first in-window result consumed
    collab_error,    \* history: the collaborator raised during this call
    returned_before, \* history: arxiv_ids returned by earlier calls
    entry_id,        \* input of the identifier derivation
    arxiv_id         \* its output

vars == <<pc, args, max_results, delay_seconds, hours_back, topics, now, cutoff_time,
          all_papers, i, stream, topic_count, returned, requests, first_seen,
          collab_error, returned_before, entry_id, arxiv_id>>

settings == <<max_results, delay_seconds, hours_back>>

----------------------------------------------------------------------------
\* Bounds of the model.
MaxTopics == 2
MaxStreamLen == 2
MaxUriLen == 4

\* Defaults of config.Settings.
arxiv_max_results == 30
arxiv_delay_seconds == 3
arxiv_hours_back == 24

----------------------------------------------------------------------------
\* Python string operations, on sequences of characters.

Min(a, b) == IF a <= b THEN a ELSE b

\* s.split(c) for a one-character separator c
RECURSIVE Split(_, _)
Split(s, c) ==
    IF \A k \in 1..Len(s) : s[k] # c
    THEN <<s>>
    ELSE LET k == CHOOSE k \in 1..Len(s) :
                     s[k] = c /\ \A j \in 1..(k - 1) : s[j] # c
         IN  <<SubSeq(s, 1, k - 1)>> \o Split(SubSeq(s, k + 1, Len(s)), c)

\* s.replace(old, new), old non-empty
RECURSIVE Replace(_, _, _)
Replace(s, old, new) ==
    IF Len(s) < Len(old) THEN s
    ELSE IF SubSeq(s, 1, Len(old)) = old
         THEN new \o Replace(SubSeq(s, Len(old) + 1, Len(s)), old, new)
         ELSE <<s[1]>> \o Replace(Tail(s), old, new)

Last(s) == s[Len(s)]

\* result.entry_id.split("/")[-1].replace("abs/", "").split("v")[0]
ArxivId(uri) ==
    Split(Replace(Last(Split(uri, "/")), <<"a", "b", "s", "/">>, <<>>), "v")[1]

----------------------------------------------------------------------------
\* Values of the inputs.

Absent == <<>>

\* the constructor calls: (max_results, delay_seconds, hours_back), each one
\* left unset or given; in turn no override, one override, all three, and an
\* override of 0
ConstructorArgs ==
    { <<Absent, Absent, Absent>>,
      <<<<1>>, Absent, Absent>>,
      <<Absent, Absent, <<1>>>>,
      <<<<1>>, <<1>>, <<1>>>>,
      <<<<0>>, Absent, Absent>>,
      <<Absent, <<0>>, Absent>>,
      <<Absent, Absent, <<0>>>> }

\* the topic lists: the two queries of main.py, repeated in turn, cut at any length
TopicAt(k) == IF k % 2 = 1 THEN "machine learning" ELSE "quantum computing"
TopicLists == {[k \in 1..n |-> TopicAt(k)] : n \in 0..MaxTopics}

\* the readings of the clock at the start of a call
NowValues == {100, 101}

\* entry ids the collaborator yields: two versions of one paper, and another paper
EntryIds == { <<"a", "b", "s", "/", "7", "v", "1">>,
              <<"a", "b", "s", "/", "7", "v", "2">>,
              <<"a", "b", "s", "/", "8">> }

\* raw results around a cutoff: one hour too old, exactly at it, one hour newer;
\* pdf_url stands for the link of that version of the entry
RawResults(cutoff) ==
    { [entry_id |-> u, pdf_url |-> u, published |-> t] :
          u \in EntryIds, t \in {cutoff - 1, cutoff, cutoff + 1} }

\* what the collaborator can yield during the current call
Yieldable == RawResults(now - hours_back)

----------------------------------------------------------------------------
\* ArxivClient.__init__

\* x or default, for an optional numeric argument x
OrDefault(x, default) == IF x = Absent \/ x[1] = 0 THEN default ELSE x[1]

Construct(mr, ds, hb) ==
    /\ pc = "new"
    /\ max_results' = OrDefault(mr, arxiv_max_results)
    /\ delay_seconds' = OrDefault(ds, arxiv_delay_seconds)
    /\ hours_back' = OrDefault(hb, arxiv_hours_back)
    /\ args' = <<mr, ds, hb>>
    /\ pc' = "idle"
    /\ UNCHANGED <<topics, now, cutoff_time, all_papers, i, stream, topic_count,
                   returned, requests, first_seen, collab_error, returned_before,
                   entry_id, arxiv_id>>

----------------------------------------------------------------------------
\* ArxivClient.search_papers

\* ArxivPaper(arxiv_id=arxiv_id, pdf_url=result.pdf_url, published=result.published)
MakePaper(result) ==
    [arxiv_id |-> ArxivId(result.entry_id),
     pdf_url |-> result.pdf_url,
     published |-> result.published]

\* arxiv_id in all_papers
InPapers(id, papers) == \E k \in 1..Len(papers) : papers[k].arxiv_id = id

Ids(papers) == {papers[k].arxiv_id : k \in 1..Len(papers)}

\* one step of a stable sort by published, oldest first
InsertOldestFirst(s, p) ==
    LET k == Cardinality({j \in 1..Len(s) : s[j].published <= p.published})
    IN  SubSeq(s, 1, k) \o <<p>> \o SubSeq(s, k + 1, Len(s))

\* one step of a stable sort by published, newest first
InsertNewestFirst(s, p) ==
    LET k == Cardinality({j \in 1..Len(s) : s[j].published >= p.published})
    IN  SubSeq(s, 1, k) \o <<p>> \o SubSeq(s, k + 1, Len(s))

\* sorted(all_papers.values(), key=lambda p: p.published, reverse=True)
RECURSIVE SortedNewestFirst(_)
SortedNewestFirst(s) ==
    IF s = <<>> THEN <<>>
    ELSE InsertNewestFirst(SortedNewestFirst(SubSeq(s, 1, Len(s) - 1)), Last(s))

\* history: the first in-window result of each arxiv_id
FirstSeenAfter(result) ==
    IF ArxivId(result.entry_id) \in DOMAIN first_seen
    THEN first_seen
    ELSE (ArxivId(result.entry_id) :> result) @@ first_seen

Init ==
    /\ pc = "new"
    /\ args = <<Absent, Absent, Absent>>
    /\ max_results = 0
    /\ delay_seconds = 0
    /\ hours_back = 0
    /\ topics = <<>>
    /\ now = 0
    /\ cutoff_time = 0
    /\ all_papers = <<>>
    /\ i = 0
    /\ stream = <<>>
    /\ topic_count = 0
    /\ returned = <<>>
    /\ requests = <<>>
    /\ first_seen = <<>>
    /\ collab_error = FALSE
    /\ returned_before = {}
    /\ entry_id = <<>>
    /\ arxiv_id = <<>>

\* entry of search_papers with the dict kept from the call before
Call_shared_dict ==
    /\ pc \in {"idle", "returned", "raised"}
    /\ \E ts \in TopicLists, t \in NowValues :
           /\ topics' = ts
           /\ now' = t
           /\ cutoff_time' = t - hours_back
    /\ i' = 0
    /\ stream' = <<>>
    /\ topic_count' = 0
    /\ returned' = <<>>
    /\ requests' = <<>>
    /\ first_seen' = <<>>
    /\ collab_error' = FALSE
    /\ returned_before' = returned_before \cup Ids(returned)
    /\ pc' = "loop"
    /\ UNCHANGED <<args, settings, all_papers, entry_id, arxiv_id>>

\* entry of search_papers: the cutoff and the empty dict
Call ==
    /\ pc \in {"idle", "returned", "raised"}
    /\ \E ts \in TopicLists, t \in NowValues :
           /\ topics' = ts
           /\ now' = t
           /\ cutoff_time' = t - hours_back
    /\ all_papers' = <<>>
    /\ i' = 0
    /\ stream' = <<>>
    /\ topic_count' = 0
    /\ returned' = <<>>
    /\ requests' = <<>>
    /\ first_seen' = <<>>
    /\ collab_error' = FALSE
    /\ returned_before' = returned_before \cup Ids(returned)
    /\ pc' = "loop"
    /\ UNCHANGED <<args, settings, entry_id, arxiv_id>>

\* the loop head issuing the search of the first topic every time
Search_first_topic ==
    /\ pc = "loop"
    /\ i < Len(topics)
    /\ i' = i + 1
    /\ requests' = Append(requests, topics[1])
    /\ stream' = <<>>
    /\ topic_count' = 0
    /\ pc' = "iter"
    /\ UNCHANGED <<args, settings, topics, now, cutoff_time, all_papers, returned,
                   first_seen, collab_error, returned_before, entry_id, arxiv_id>>

\* for topic in topics: the search is issued; its results come lazily
Search ==
    /\ pc = "loop"
    /\ i < Len(topics)
    /\ i' = i + 1
    /\ requests' = Append(requests, topics[i + 1])
    /\ stream' = <<>>
    /\ topic_count' = 0
    /\ pc' = "iter"
    /\ UNCHANGED <<args, settings, topics, now, cutoff_time, all_papers, returned,
                   first_seen, collab_error, returned_before, entry_id, arxiv_id>>

\* the collaborator may yield one more result of the current search
CanYield == Len(stream) < Min(max_results, MaxStreamLen)

\* a result older than the cutoff that is stored like any other
ConsumeOld_keep(result) ==
    /\ pc = "iter"
    /\ CanYield
    /\ stream' = Append(stream, result)
    /\ result.published < cutoff_time
    /\ all_papers' = IF InPapers(ArxivId(result.entry_id), all_papers)
                     THEN all_papers
                     ELSE Append(all_papers, MakePaper(result))
    /\ UNCHANGED <<pc, args, settings, topics, now, cutoff_time, i, topic_count,
                   returned, requests, first_seen, collab_error, returned_before,
                   entry_id, arxiv_id>>

\* a result older than the cutoff that is skipped, the loop going on
ConsumeOld_continue(result) ==
    /\ pc = "iter"
    /\ CanYield
    /\ stream' = Append(stream, result)
    /\ result.published < cutoff_time
    /\ UNCHANGED <<pc, args, settings, topics, now, cutoff_time, all_papers, i,
                   topic_count, returned, requests, first_seen, collab_error,
                   returned_before, entry_id, arxiv_id>>

\* the next result is older than the cutoff: break
ConsumeOld(result) ==
    /\ pc = "iter"
    /\ CanYield
    /\ stream' = Append(stream, result)
    /\ result.published < cutoff_time
    /\ pc' = "loop"
    /\ UNCHANGED <<args, settings, topics, now, cutoff_time, all_papers, i, topic_count,
                   returned, requests, first_seen, collab_error, returned_before,
                   entry_id, arxiv_id>>

\* a known arxiv_id whose record is appended again
ConsumeDuplicate_store(result) ==
    /\ pc = "iter"
    /\ CanYield
    /\ stream' = Append(stream, result)
    /\ ~(result.published < cutoff_time)
    /\ InPapers(ArxivId(result.entry_id), all_papers)
    /\ all_papers' = Append(all_papers, MakePaper(result))
    /\ first_seen' = FirstSeenAfter(result)
    /\ UNCHANGED <<pc, args, settings, topics, now, cutoff_time, i, topic_count,
                   returned, requests, collab_error, returned_before, entry_id,
                   arxiv_id>>

\* a known arxiv_id whose record is replaced by the later result
ConsumeDuplicate_overwrite(result) ==
    /\ pc = "iter"
    /\ CanYield
    /\ stream' = Append(stream, result)
    /\ ~(result.published < cutoff_time)
    /\ InPapers(ArxivId(result.entry_id), all_papers)
    /\ all_papers' = [k \in 1..Len(all_papers) |->
                         IF all_papers[k].arxiv_id = ArxivId(result.entry_id)
                         THEN MakePaper(result)
                         ELSE all_papers[k]]
    /\ first_seen' = FirstSeenAfter(result)
    /\ UNCHANGED <<pc, args, settings, topics, now, cutoff_time, i, topic_count,
                   returned, requests, collab_error, returned_before, entry_id,
                   arxiv_id>>

\* the next result is in the window and its arxiv_id is in all_papers: continue
ConsumeDuplicate(result) ==
    /\ pc = "iter"
    /\ CanYield
    /\ stream' = Append(stream, result)
    /\ ~(result.published < cutoff_time)
    /\ InPapers(ArxivId(result.entry_id), all_papers)
    /\ first_seen' = FirstSeenAfter(result)
    /\ UNCHANGED <<pc, args, settings, topics, now, cutoff_time, all_papers, i,
                   topic_count, returned, requests, collab_error, returned_before,
                   entry_id, arxiv_id>>

\* the next result is in the window and new: it is stored
ConsumeNew(result) ==
    /\ pc = "iter"
    /\ CanYield
    /\ stream' = Append(stream, result)
    /\ ~(result.published < cutoff_time)
    /\ ~InPapers(ArxivId(result.entry_id), all_papers)
    /\ all_papers' = Append(all_papers, MakePaper(result))
    /\ topic_count' = topic_count + 1
    /\ first_seen' = FirstSeenAfter(result)
    /\ UNCHANGED <<pc, args, settings, topics, now, cutoff_time, i, returned, requests,
                   collab_error, returned_before, entry_id, arxiv_id>>

\* the stream ends: the inner loop is left
Exhausted ==
    /\ pc = "iter"
    /\ pc' = "loop"
    /\ UNCHANGED <<args, settings, topics, now, cutoff_time, all_papers, i, stream,
                   topic_count, returned, requests, first_seen, collab_error,
                   returned_before, entry_id, arxiv_id>>

\* a failure of the collaborator caught per topic, the loop going on
Raise_swallowed ==
    /\ pc = "iter"
    /\ collab_error' = TRUE
    /\ pc' = "loop"
    /\ UNCHANGED <<args, settings, topics, now, cutoff_time, all_papers, i, stream,
                   topic_count, returned, requests, first_seen, returned_before,
                   entry_id, arxiv_id>>

\* the collaborator raises while the next result is fetched; nothing catches it
Raise ==
    /\ pc = "iter"
    /\ collab_error' = TRUE
    /\ pc' = "raised"
    /\ UNCHANGED <<args, settings, topics, now, cutoff_time, all_papers, i, stream,
                   topic_count, returned, requests, first_seen, returned_before,
                   entry_id, arxiv_id>>

\* after the loop: sort and return
Return ==
    /\ pc = "loop"
    /\ i = Len(topics)
    /\ returned' = SortedNewestFirst(all_papers)
    /\ pc' = "returned"
    /\ UNCHANGED <<args, settings, topics, now, cutoff_time, all_papers, i, stream,
                   topic_count, requests, first_seen, collab_error,
                   returned_before, entry_id, arxiv_id>>

Next ==
    \/ \E a \in ConstructorArgs : Construct(a[1], a[2], a[3])
    \/ Call
    \/ Search
    \/ \E result \in Yieldable : ConsumeOld(result)
    \/ \E result \in Yieldable : ConsumeDuplicate(result)
    \/ \E result \in Yieldable : ConsumeNew(result)
    \/ Exhausted
    \/ Raise
    \/ Return

Spec == Init /\ [][Next]_vars

----------------------------------------------------------------------------
\* The identifier derivation on its own: an entry id is drawn, then derived.

Chars == {"/", "v", "7", "a"}

\* the entry ids of the examples: .../1234.5678v2, .../1234.5678, .../abs/1234.5678v1
ExampleUris ==
    { <<"x", "/", "1", "2", "3", "4", ".", "5", "6", "7", "8", "v", "2">>,
      <<"x", "/", "1", "2", "3", "4", ".", "5", "6", "7", "8">>,
      <<"x", "/", "a", "b", "s", "/", "1", "2", "3", "4", ".", "5", "6", "7", "8",
        "v", "1">> }

Uris == ExampleUris \cup UNION {[1..n -> Chars] : n \in 0..MaxUriLen}

InitId ==
    /\ pc = "uri"
    /\ entry_id \in Uris
    /\ arxiv_id = <<>>
    /\ args = <<Absent, Absent, Absent>>
    /\ max_results = 0
    /\ delay_seconds = 0
    /\ hours_back = 0
    /\ topics = <<>>
    /\ now = 0
    /\ cutoff_time = 0
    /\ all_papers = <<>>
    /\ i = 0
    /\ stream = <<>>
    /\ topic_count = 0
    /\ returned = <<>>
    /\ requests = <<>>
    /\ first_seen = <<>>
    /\ collab_error = FALSE
    /\ returned_before = {}

\* arxiv_id = result.entry_id.split("/")[-1].replace("abs/", "").split("v")[0]
Derive ==
    /\ pc = "uri"
    /\ arxiv_id' = ArxivId(entry_id)
    /\ pc' = "id"
    /\ UNCHANGED <<args, settings, topics, now, cutoff_time, all_papers, i, stream,
                   topic_count, returned, requests, first_seen, collab_error,
                   returned_before, entry_id>>

NextId == Derive

SpecId == InitId /\ [][NextId]_vars

----------------------------------------------------------------------------
\* Properties.

InWindow(result) == result.published >= now - hours_back

Max(S) == CHOOSE x \in S : \A y \in S : y <= x

\* C1: the list search_papers returns holds no two records with the same
\* arxiv_id, whatever the topics and whatever the collaborator yields.
C1_NoDuplicateIds ==
    pc = "returned" =>
        \A a, b \in 1..Len(returned) :
            a # b => returned[a].arxiv_id # returned[b].arxiv_id

\* a call has returned two records, and the last topic yielded the same
\* arxiv_id twice inside the window
C1_Witness ==
    /\ pc = "returned"
    /\ Len(returned) = 2
    /\ Len(stream) = 2
    /\ InWindow(stream[1])
    /\ InWindow(stream[2])
    /\ ArxivId(stream[1].entry_id) = ArxivId(stream[2].entry_id)

\* C2: every record returned has published >= cutoff, the cutoff being the
\* clock read at the start of the call minus hours_back hours; a record
\* published exactly at the cutoff is kept.
C2_Recency ==
    pc = "returned" =>
        /\ \A k \in 1..Len(returned) : returned[k].published >= now - hours_back
        /\ \A id \in DOMAIN first_seen :
               first_seen[id].published = now - hours_back =>
                   MakePaper(first_seen[id]) \in {returned[k] : k \in 1..Len(returned)}

\* a call has returned a record published exactly at the cutoff, consumed
\* before a newer one, and its last topic ended on a result that is too old
C2_Witness ==
    /\ pc = "returned"
    /\ Len(all_papers) = 2
    /\ all_papers[1].published = now - hours_back
    /\ all_papers[2].published > now - hours_back
    /\ stream # <<>>
    /\ Last(stream).published < now - hours_back

\* C3: the list returned is non-increasing in published over its whole length.
C3_NewestFirst ==
    pc = "returned" =>
        \A a, b \in 1..Len(returned) :
            a < b => returned[a].published >= returned[b].published

\* a call has returned two records of two topics that were stored oldest first
C3_Witness ==
    /\ pc = "returned"
    /\ Len(returned) = 2
    /\ i = 2
    /\ topic_count = 1
    /\ all_papers[1].published < all_papers[2].published

\* the records added by folding results into papers, skipping known arxiv_ids
RECURSIVE KeepNew(_, _)
KeepNew(papers, results) ==
    IF results = <<>> THEN papers
    ELSE KeepNew(IF InPapers(ArxivId(Head(results).entry_id), papers)
                 THEN papers
                 ELSE Append(papers, MakePaper(Head(results))),
                 Tail(results))

DescendingByPublished(s) ==
    \A a, b \in 1..Len(s) : a < b => s[a].published >= s[b].published

OldIndexes(s) == {k \in 1..Len(s) : ~InWindow(s[k])}

\* C4: of a topic whose stream is sorted newest first and holds results on both
\* sides of the cutoff, exactly the in-window prefix is kept (known arxiv_ids
\* skipped), the first result that is too old is the last one consumed, and
\* the loop over the results is left; while that loop runs no result consumed
\* is too old.
C4_EarlyTermination ==
    /\ pc = "iter" => OldIndexes(stream) = {}
    /\ ( /\ pc \in {"loop", "returned"}
         /\ i >= 1
         /\ DescendingByPublished(stream)
         /\ OldIndexes(stream) # {}
         /\ OldIndexes(stream) # 1..Len(stream) )
       => /\ OldIndexes(stream) = {Len(stream)}
          /\ all_papers =
                 KeepNew(SubSeq(all_papers, 1, Len(all_papers) - topic_count),
                         SubSeq(stream, 1, Len(stream) - 1))

\* the first topic yielded an in-window result, then one too old, and was left
\* with one record stored while another topic is still to be searched
C4_Witness ==
    /\ pc = "loop"
    /\ i = 1
    /\ Len(topics) = 2
    /\ Len(stream) = 2
    /\ InWindow(stream[1])
    /\ ~InWindow(stream[2])
    /\ topic_count = 1

\* the URI's trailing path segment
TrailingSegment(uri) ==
    LET slashes == {k \in 1..Len(uri) : uri[k] = "/"}
    IN  IF slashes = {} THEN uri ELSE SubSeq(uri, Max(slashes) + 1, Len(uri))

Digits == {"0", "1", "2", "3", "4", "5", "6", "7", "8", "9"}

\* seg without its trailing v<digits>, if it has one
StripVersionSuffix(seg) ==
    LET cuts == {k \in 1..(Len(seg) - 1) :
                     seg[k] = "v" /\ \A j \in (k + 1)..Len(seg) : seg[j] \in Digits}
    IN  IF cuts = {} THEN seg ELSE SubSeq(seg, 1, Max(cuts) - 1)

\* C5: the derived identifier is the trailing path segment of the entry URI
\* with a trailing version suffix v<digits> removed and nothing else changed.
C5_IdIsSegmentWithoutVersion ==
    pc = "id" => arxiv_id = StripVersionSuffix(TrailingSegment(entry_id))

\* C6: the record kept for an arxiv_id is the one built from the first
\* in-window result with that arxiv_id; a later in-window result with a known
\* arxiv_id changes no record and does not end the loop over its topic.
C6_FirstResultWins ==
    [][ /\ \A k \in 1..Len(all_papers') :
               /\ all_papers'[k].arxiv_id \in DOMAIN first_seen'
               /\ all_papers'[k] = MakePaper(first_seen'[all_papers'[k].arxiv_id])
        /\ pc' = "returned" =>
               \A k \in 1..Len(returned') :
                   returned'[k] = MakePaper(first_seen'[returned'[k].arxiv_id])
        /\ ( /\ pc = "iter"
             /\ Len(stream') = Len(stream) + 1
             /\ InWindow(Last(stream'))
             /\ InPapers(ArxivId(Last(stream').entry_id), all_papers) )
           => (pc' = "iter" /\ all_papers' = all_papers)
      ]_vars

\* a call has returned after its second topic yielded, inside the window,
\* another version of a paper the first topic had stored, and then a new paper
C6_Witness ==
    /\ pc = "returned"
    /\ i = 2
    /\ Len(stream) = 2
    /\ topic_count = 1
    /\ InWindow(stream[1])
    /\ \E k \in 1..Len(returned) :
           /\ returned[k].arxiv_id = ArxivId(stream[1].entry_id)
           /\ returned[k].pdf_url # stream[1].pdf_url
    /\ MakePaper(stream[2]) = Last(all_papers)

\* C7: every override passed to the constructor is the effective setting; a
\* setting is the default only when its override was left unset.
C7_OverridesTakeEffect ==
    pc \notin {"new", "uri", "id"} =>
        /\ args[1] # Absent => max_results = args[1][1]
        /\ args[2] # Absent => delay_seconds = args[2][1]
        /\ args[3] # Absent => hours_back = args[3][1]
        /\ max_results = arxiv_max_results => args[1] = Absent
        /\ delay_seconds = arxiv_delay_seconds => args[2] = Absent
        /\ hours_back = arxiv_hours_back => args[3] = Absent

\* C8: once the collaborator has raised during a call, the call has ended with
\* that failure: nothing is returned, and the searches issued are those of the
\* topics up to the failing one, none after it.
C8_FailureAborts ==
    collab_error =>
        /\ pc = "raised"
        /\ returned = <<>>
        /\ i >= 1
        /\ requests = SubSeq(topics, 1, i)

\* the collaborator raised in the first of two topics after a record was stored
C8_Witness ==
    /\ pc = "raised"
    /\ i = 1
    /\ Len(topics) = 2
    /\ all_papers # <<>>

\* C9: the searches issued are those of the topics handled so far, in order;
\* a call that returns has issued exactly one per topic, and a call with no
\* topics returns the empty list without issuing any.
C9_OneSearchPerTopic ==
    /\ pc \in {"loop", "iter", "raised", "returned"} =>
           requests = SubSeq(topics, 1, i)
    /\ pc = "returned" => requests = topics
    /\ (pc = "returned" /\ topics = <<>>) => (returned = <<>> /\ requests = <<>>)

\* a call with two different topics has returned
C9_Witness ==
    /\ pc = "returned"
    /\ Len(topics) = 2
    /\ Len(requests) = 2
    /\ requests[1] # requests[2]

\* C10: what a call returns is made of the results consumed during that call
\* alone: the arxiv_ids returned are exactly those yielded inside the window in
\* this call, so one returned by an earlier call is returned again when it is
\* yielded again; and no call changes the settings of the client.
C10_CallsAreIndependent ==
    [][ /\ pc # "new" => settings' = settings
        /\ pc' = "returned" =>
               /\ Ids(returned') = DOMAIN first_seen'
               /\ Len(returned') = Cardinality(DOMAIN first_seen')
      ]_vars

\* a call has returned an arxiv_id that an earlier call had returned
C10_Witness ==
    /\ pc = "returned"
    /\ Ids(returned) \cap returned_before # {}

====
